---------------------------- MODULE Spec2Model ----------------------------
(***************************************************************************)
(* A model of nwispy: the web-request file parser and the URL encoder of   *)
(* nwispy_webservice.py and the series helpers of nwispy_helpers.py.       *)
(*                                                                         *)
(* Text is modelled as sequences of one-character strings, arrays as       *)
(* sequences, and a call that raises as a record whose status names the    *)
(* exception.  Python indices are kept 0-based inside the operators.       *)
(***************************************************************************)
EXTENDS Integers, Sequences, FiniteSets, TLC

VARIABLES
    \* nwispy_helpers.subset_data / find_start_end_dates
    dates,            \* array of dates of the series being subset
    data,             \* array of data of the series being subset
    observed_dates,   \* array of dates of the other series
    start_date,       \* window start handed to subset_data
    end_date,         \* window end handed to subset_data
    subset,           \* outcome of subset_data(dates, data, start_date, end_date)
    resubset,         \* outcome of subset_data on the dates and data of subset
    stage,            \* position of the caller
    \* nwispy_webservice.read_webrequest_in
    line,                 \* the line of data_file the loop is at
    line_no,              \* how many lines of data_file the loop has taken
    match_column_names,   \* whether patterns["column_names"] matched line
    match_dv_iv_row,      \* whether patterns["dv_iv_row"] matched line
    match_site_row,       \* whether patterns["site_row"] matched line
    column_names,         \* data["column names"]
    requests,             \* data["requests"]
    reader,               \* position of read_webrequest_in
    \* nwispy_webservice.encode_url
    data_request,         \* the request dictionary handed to encode_url
    request_url,          \* the query string encode_url returned
    encoder,              \* position of the caller of encode_url
    \* nwispy_helpers.get_filepaths
    files_found,          \* the full paths os.walk yields, in walk order
    file_ext,             \* the file_ext argument
    file_paths,           \* the list get_filepaths returned
    finder,               \* position of the caller of get_filepaths
    \* nwispy.process_webrequest
    request_data,         \* request_data["requests"]
    request_index,        \* how many requests the loop has taken
    download_log,         \* the calls of download_file and how each ended
    web_error,            \* the exception that left process_webrequest
    web                   \* position of process_webrequest

seriesVars == <<dates, data, observed_dates, start_date, end_date, subset,
                resubset, stage>>
readerVars == <<line, line_no, match_column_names, match_dv_iv_row,
                match_site_row, column_names, requests, reader>>
encoderVars == <<data_request, request_url, encoder>>
finderVars == <<files_found, file_ext, file_paths, finder>>
webVars == <<request_data, request_index, download_log, web_error, web>>
vars == <<seriesVars, readerVars, encoderVars, finderVars, webVars>>

\* what the steps of one component leave alone
notSeries == <<readerVars, encoderVars, finderVars, webVars>>
notReader == <<seriesVars, encoderVars, finderVars, webVars>>
notEncoder == <<seriesVars, readerVars, finderVars, webVars>>
notFinder == <<seriesVars, readerVars, encoderVars, webVars>>
notWeb == <<seriesVars, readerVars, encoderVars, finderVars>>

-----------------------------------------------------------------------------
(* Bounds of the model *)

MaxLen == 3       \* longest array of dates or data
MaxDate == 3      \* dates are the ordinal days 1..MaxDate
MaxLines == 2     \* longest request file, in lines
MaxParams == 2    \* most parameter codes on one request line
MaxFiles == 3     \* most files os.walk finds under the directory
MaxRequests == 3  \* most requests process_webrequest is given

Dates == 1..MaxDate
\* Windows also reach one day before and one day after every series.
WindowDates == 0..(MaxDate + 1)

SeqsUpTo(n, S) == UNION {[1..k -> S] : k \in 0..n}

\* The data value stored at 0-based position i: distinct at every position,
\* so that a slice of data is recognisable.
DataAt(i) == 100 + i
DataOfLen(k) == [i \in 1..k |-> DataAt(i - 1)]

-----------------------------------------------------------------------------
(* Python and numpy primitives used by nwispy_helpers.py *)

Min2(x, y) == IF x < y THEN x ELSE y

\* seq[lo:hi] for 0 <= lo, 0 <= hi
Slice(seq, lo, hi) == SubSeq(seq, lo + 1, Min2(hi, Len(seq)))

\* np.where(arr == x)[0]: the 0-based indices at which arr holds x
Where(arr, x) == {i \in 0..(Len(arr) - 1) : arr[i + 1] = x}

\* int(a) of an index array: defined for an array of exactly one element,
\* a TypeError otherwise
IntOfArrayOK(a) == Cardinality(a) = 1
IntOfArray(a) == CHOOSE i \in a : TRUE

Raised(exc) == [status |-> exc, dates |-> <<>>, data |-> <<>>]
Returned(d, v) == [status |-> "ok", dates |-> d, data |-> v]

-----------------------------------------------------------------------------
(* nwispy_helpers.subset_data *)

\* lines 168-169: a start outside [dates[0], dates[-1]] becomes dates[0]
ClampStart(ds, s) == IF s < ds[1] \/ s > ds[Len(ds)] THEN ds[1] ELSE s

\* lines 171-172: an end outside [dates[0], dates[-1]] becomes dates[-1]
ClampEnd(ds, e) == IF e > ds[Len(ds)] \/ e < ds[1] THEN ds[Len(ds)] ELSE e

\* line 162, mutated: only dates longer than data are refused
LengthsDifferOneSided(ds, vs) == Len(ds) > Len(vs)

\* line 162: len(dates) != len(data)
LengthsDiffer(ds, vs) == Len(ds) # Len(vs)

\* lines 175-176: int(np.where(dates == d)[0]) is defined when d occurs
\* exactly once in dates
IndexOK(ds, d) == IntOfArrayOK(Where(ds, d))
IndexOf(ds, d) == IntOfArray(Where(ds, d))

\* lines 179-186, mutated: the slices stop before end_idx
SubsetBetweenExclusive(ds, vs, start_idx, end_idx) ==
    Returned(Slice(ds, start_idx, end_idx), Slice(vs, start_idx, end_idx))

\* lines 179-186: the slices [start_idx : end_idx + 1] of dates and of data
SubsetBetween(ds, vs, start_idx, end_idx) ==
    Returned(Slice(ds, start_idx, end_idx + 1), Slice(vs, start_idx, end_idx + 1))

subset_data(ds, vs, s, e) ==
    IF LengthsDiffer(ds, vs)
    THEN Raised("ValueError")
    ELSE IF Len(ds) = 0
    THEN Raised("IndexError")                     \* dates[0] of an empty array
    ELSE LET s1 == ClampStart(ds, s)
             e1 == ClampEnd(ds, e)
         IN  IF ~IndexOK(ds, s1) \/ ~IndexOK(ds, e1)
             THEN Raised("TypeError")             \* int() of an array not of size 1
             ELSE SubsetBetween(ds, vs, IndexOf(ds, s1), IndexOf(ds, e1))

-----------------------------------------------------------------------------
(* nwispy_helpers.find_start_end_dates *)

\* lines 205-208, mutated: the first date of the observed series, always
PickStartObserved(model_dates, obs_dates) == obs_dates[1]

\* lines 205-208: the later of the two first dates
PickStart(model_dates, obs_dates) ==
    IF obs_dates[1] > model_dates[1] THEN obs_dates[1] ELSE model_dates[1]

\* lines 210-213: the earlier of the two last dates
PickEnd(model_dates, obs_dates) ==
    IF obs_dates[Len(obs_dates)] > model_dates[Len(model_dates)]
    THEN model_dates[Len(model_dates)]
    ELSE obs_dates[Len(obs_dates)]

find_start_end_dates(model_dates, obs_dates) ==
    IF Len(model_dates) = 0 \/ Len(obs_dates) = 0
    THEN [status |-> "IndexError", start |-> 0, end |-> 0]
    ELSE [status |-> "ok",
          start |-> PickStart(model_dates, obs_dates),
          end |-> PickEnd(model_dates, obs_dates)]

-----------------------------------------------------------------------------
(* Text: a Python string is a sequence of one-character strings *)

Tab == "\t"
Newline == "\n"
Digits == {"0", "1", "2", "3", "4", "5", "6", "7", "8", "9"}
\* what str.strip() removes at both ends
Whitespace == {" ", "\t", "\n", "\r"}

IsDigit(c) == c \in Digits

\* the character at 1-based position i of s, "" past either end
At(s, i) == IF i >= 1 /\ i <= Len(s) THEN s[i] ELSE ""

Least(S) == CHOOSE x \in S : \A y \in S : x <= y

\* how many characters from position p on are digits, all of them in a row
RECURSIVE DigitRun(_, _)
DigitRun(s, p) == IF IsDigit(At(s, p)) THEN 1 + DigitRun(s, p + 1) ELSE 0

\* how many characters from position p on the regex dot matches: every
\* character but a newline
RECURSIVE DotRun(_, _)
DotRun(s, p) ==
    IF At(s, p) \in {"", Newline} THEN 0 ELSE 1 + DotRun(s, p + 1)

\* whether the characters of word stand in s from position p on
StartsAt(s, p, word) ==
    /\ p + Len(word) - 1 <= Len(s)
    /\ \A k \in 1..Len(word) : s[p + k - 1] = word[k]

\* s.strip()
Strip(s) ==
    LET keep == {i \in 1..Len(s) : s[i] \notin Whitespace}
    IN  IF keep = {} THEN <<>>
        ELSE SubSeq(s, Least(keep), CHOOSE i \in keep : \A j \in keep : j <= i)

\* s.split(sep) for a one-character sep
RECURSIVE Split(_, _)
Split(s, sep) ==
    LET at == {i \in 1..Len(s) : s[i] = sep}
    IN  IF at = {} THEN <<s>>
        ELSE <<SubSeq(s, 1, Least(at) - 1)>>
                 \o Split(SubSeq(s, Least(at) + 1, Len(s)), sep)

\* sep.join(fields)
RECURSIVE JoinWith(_, _)
JoinWith(fields, sep) ==
    IF Len(fields) = 0 THEN <<>>
    ELSE IF Len(fields) = 1 THEN fields[1]
    ELSE fields[1] \o <<sep>> \o JoinWith(Tail(fields), sep)

-----------------------------------------------------------------------------
(* nwispy_webservice.read_webrequest_in: the three patterns, as re.search
   applies them: the leftmost position of the line at which the pattern
   matches, greedy quantifiers, alternatives in the order written *)

T_dv == <<"d", "v">>
T_iv == <<"i", "v">>
T_site == <<"s", "i", "t", "e">>

NoMatch == [matched |-> FALSE]

\* "(#)(.+)": a '#' followed by at least one character that is no newline
SearchColumnNames(s) ==
    LET at == {i \in 1..Len(s) : s[i] = "#" /\ DotRun(s, i + 1) >= 1}
    IN  IF at = {} THEN NoMatch
        ELSE LET i == Least(at)
             IN  [matched |-> TRUE,
                  group2 |-> SubSeq(s, i + 1, i + DotRun(s, i + 1))]

\* "[0-9]{4}-[0-9]{1,2}-[0-9]{1,2}" at position d, when the character after
\* it is a tab: the position of that tab, 0 when there is no such match
DateThenTab(s, d) ==
    LET m == d + 5                      \* first digit of the month
        nm == DigitRun(s, m)
        dd == m + nm + 1                \* first digit of the day
        nd == DigitRun(s, dd)
    IN  IF /\ DigitRun(s, d) = 4
           /\ At(s, d + 4) = "-"
           /\ nm \in {1, 2}
           /\ At(s, m + nm) = "-"
           /\ nd \in {1, 2}
           /\ At(s, dd + nd) = Tab
        THEN dd + nd
        ELSE 0

\* "\t([0-9]+)\t(date)\t(date)\t(.+)" at position p: what follows the
\* (dv|iv|) group of the dv_iv_row pattern
RowAt(s, p) ==
    LET n == DigitRun(s, p + 1)
        t2 == p + 1 + n                 \* the tab after the site number
        t3 == DateThenTab(s, t2 + 1)    \* the tab after the start date
        t4 == IF t3 = 0 THEN 0 ELSE DateThenTab(s, t3 + 1)
    IN  IF /\ At(s, p) = Tab
           /\ n >= 1
           /\ At(s, t2) = Tab
           /\ t3 > 0
           /\ t4 > 0
           /\ DotRun(s, t4 + 1) >= 1
        THEN [matched |-> TRUE,
              group2 |-> SubSeq(s, p + 1, t2 - 1),
              group3 |-> SubSeq(s, t2 + 1, t3 - 1),
              group4 |-> SubSeq(s, t3 + 1, t4 - 1),
              group5 |-> SubSeq(s, t4 + 1, t4 + DotRun(s, t4 + 1))]
        ELSE NoMatch

\* "(dv|iv|)" at position i followed by the rest of the row: the group it
\* captures, tried in the order dv, iv, empty
KindAt(s, i) ==
    IF StartsAt(s, i, T_dv) /\ RowAt(s, i + 2).matched THEN T_dv
    ELSE IF StartsAt(s, i, T_iv) /\ RowAt(s, i + 2).matched THEN T_iv
    ELSE <<>>

DvIvRowAt(s, i) ==
    \/ StartsAt(s, i, T_dv) /\ RowAt(s, i + 2).matched
    \/ StartsAt(s, i, T_iv) /\ RowAt(s, i + 2).matched
    \/ RowAt(s, i).matched

\* line 93: re.search tries every position of the line
SearchStarts(s) == {i \in 1..Len(s) : DvIvRowAt(s, i)}

SearchDvIvRow(s) ==
    LET at == SearchStarts(s)
    IN  IF at = {} THEN NoMatch
        ELSE LET i == Least(at)
                 k == KindAt(s, i)
                 row == RowAt(s, i + Len(k))
             IN  [matched |-> TRUE,
                  group1 |-> k,
                  group2 |-> row.group2,
                  group3 |-> row.group3,
                  group4 |-> row.group4,
                  group5 |-> row.group5]

\* "(site)\t([0-9]+)"
SearchSiteRow(s) ==
    LET at == {i \in 1..Len(s) : /\ StartsAt(s, i, T_site)
                                 /\ At(s, i + 4) = Tab
                                 /\ DigitRun(s, i + 5) >= 1}
    IN  IF at = {} THEN NoMatch
        ELSE LET i == Least(at)
             IN  [matched |-> TRUE,
                  group1 |-> T_site,
                  group2 |-> SubSeq(s, i + 5, i + 4 + DigitRun(s, i + 5))]

\* line 97
ColumnNamesOf(m) == Split(Strip(m.group2), Tab)

\* lines 100-106
DvIvRequest(m) ==
    [data_type |-> m.group1,
     site_number |-> m.group2,
     start_date |-> m.group3,
     end_date |-> m.group4,
     parameters |-> Split(Strip(m.group5), Tab)]

\* lines 109-115: the dates and the parameters are the empty string
SiteRequest(m) ==
    [data_type |-> m.group1,
     site_number |-> m.group2,
     start_date |-> <<>>,
     end_date |-> <<>>,
     parameters |-> <<>>]

\* lines 99-115: what one line appends to data["requests"]
RequestsOf(s) ==
    (IF SearchDvIvRow(s).matched THEN <<DvIvRequest(SearchDvIvRow(s))>> ELSE <<>>)
        \o (IF SearchSiteRow(s).matched THEN <<SiteRequest(SearchSiteRow(s))>> ELSE <<>>)

-----------------------------------------------------------------------------
(* The request files the reader is given *)

Date1 == <<"2", "0", "1", "4", "-", "0", "1", "-", "0", "1">>
Date2 == <<"2", "0", "1", "4", "-", "3", "-", "1", "0">>
\* three digits of day: no date of the pattern
BadDate == <<"2", "0", "1", "4", "-", "0", "1", "-", "0", "1", "1">>
Site01 == <<"0", "1">>
Code00 == <<"0", "0">>

Kinds == {T_dv, T_iv, <<>>}
\* a parameter code is any token without tab or blank; "site" is one
Codes == {Code00, T_site}
ParamLists == UNION {[1..k -> Codes] : k \in 1..MaxParams}
\* what ends a line: its newline, blanks before it, or the end of the file
Trails == {<<Newline>>, <<" ", Newline>>, <<>>}

Row(kind, site, start, end, params) ==
    JoinWith(<<kind, site, start, end>> \o params, Tab)

RequestLines ==
    {Row(k, Site01, Date1, Date2, ps) \o t :
        k \in Kinds, ps \in ParamLists, t \in Trails}
SiteLines == {T_site \o <<Tab>> \o Site01 \o t : t \in Trails}
HeaderLines == {<<"#", " ", "k", Tab, "s", Newline>>}
\* a request line and a site line commented out with '#'
CommentedLines ==
    {<<"#">> \o Row(T_dv, Site01, Date1, Date2, <<Code00>>) \o <<Newline>>,
     <<"#">> \o T_site \o <<Tab>> \o Site01 \o <<Newline>>}
\* a site line that goes on with dates and a parameter
SiteDatedLines == {Row(T_site, Site01, Date1, Date2, <<Code00>>) \o <<Newline>>}
\* an indented request line, as in test_read_webrequest_in
IndentedLines ==
    {<<" ", " ">> \o Row(T_iv, Site01, Date1, Date2, <<Code00>>) \o <<" ", Newline>>}
\* lines no pattern matches
OtherLines ==
    {<<Newline>>,
     <<"x", Newline>>,
     <<"#", Newline>>,
     Row(T_dv, Site01, BadDate, Date2, <<Code00>>) \o <<Newline>>,
     JoinWith(<<T_dv, Site01, Date1, Date2>>, Tab) \o <<Newline>>}

Lines ==
    RequestLines \cup SiteLines \cup HeaderLines \cup CommentedLines
        \cup SiteDatedLines \cup IndentedLines \cup OtherLines

-----------------------------------------------------------------------------
(* nwispy_webservice.encode_url: urllib.urlencode of the five parameters *)

Letters ==
    {"a", "b", "c", "d", "e", "f", "g", "h", "i", "j", "k", "l", "m", "n", "o",
     "p", "q", "r", "s", "t", "u", "v", "w", "x", "y", "z",
     "A", "B", "C", "D", "E", "F", "G", "H", "I", "J", "K", "L", "M", "N", "O",
     "P", "Q", "R", "S", "T", "U", "V", "W", "X", "Y", "Z"}
\* the characters urllib.quote never escapes
AlwaysSafe == Letters \cup Digits \cup {"_", ".", "-"}

\* '%XX' of the other characters the model writes
EscapedChars == {",", "&", "=", "+", "%", "#", Tab}
PercentCode(c) ==
    CASE c = "," -> <<"%", "2", "C">>
      [] c = "&" -> <<"%", "2", "6">>
      [] c = "=" -> <<"%", "3", "D">>
      [] c = "+" -> <<"%", "2", "B">>
      [] c = "%" -> <<"%", "2", "5">>
      [] c = "#" -> <<"%", "2", "3">>
      [] c = Tab -> <<"%", "0", "9">>

\* line 140, mutated: nothing is escaped
QuoteCharPlain(c) == <<c>>

\* urllib.quote_plus on one character
QuoteChar(c) ==
    IF c \in AlwaysSafe THEN <<c>>
    ELSE IF c = " " THEN <<"+">>
    ELSE PercentCode(c)

RECURSIVE quote_plus(_)
quote_plus(s) ==
    IF s = <<>> THEN <<>> ELSE QuoteChar(Head(s)) \o quote_plus(Tail(s))

K_format == <<"f", "o", "r", "m", "a", "t">>
K_site == <<"s", "i", "t", "e">>
K_startDt == <<"s", "t", "a", "r", "t", "D", "t">>
K_endDt == <<"e", "n", "d", "D", "t">>
K_parameterCD == <<"p", "a", "r", "a", "m", "e", "t", "e", "r", "C", "D">>
V_rdb == <<"r", "d", "b">>

\* lines 132-138: the dictionary user_parameters, in the order urlencode
\* walks it (the order test_encode_url expects, lines 238 and 241)
UserParameters(req) ==
    <<<<K_parameterCD, JoinWith(req.parameters, ",")>>,
      <<K_endDt, req.end_date>>,
      <<K_startDt, req.start_date>>,
      <<K_site, req.site_number>>,
      <<K_format, V_rdb>>>>

\* urllib.urlencode: quote_plus(k) + '=' + quote_plus(v), joined by '&'
urlencode(pairs) ==
    JoinWith([i \in 1..Len(pairs) |->
                 quote_plus(pairs[i][1]) \o <<"=">> \o quote_plus(pairs[i][2])],
             "&")

encode_url(req) == urlencode(UserParameters(req))

-----------------------------------------------------------------------------
(* The request dictionaries encode_url is given *)

\* texts with the characters a query string gives a meaning to
Hostile1 == <<"a", " ", "&", "=", "b">>
Hostile2 == <<"+", "%", "2", "C">>
Code65 == <<"6", "5">>
CommaCode == <<"0", ",", "1">>

EncodeCodes == {Code00, Code65, CommaCode, <<>>, Hostile1}
\* parameters: a list of codes, or the empty string of a site request
EncodeParamLists == UNION {[1..k -> EncodeCodes] : k \in 0..MaxParams}

DataRequests ==
    [data_type : {T_dv, T_site},
     site_number : {Site01, Hostile1},
     start_date : {<<>>, Date1, Hostile2},
     end_date : {<<>>, Date2, Hostile1},
     parameters : EncodeParamLists]

-----------------------------------------------------------------------------
(* nwispy_helpers.get_filepaths, lines 18-44 *)

\* str.endswith
EndsWith(s, suffix) ==
    /\ Len(suffix) <= Len(s)
    /\ SubSeq(s, Len(s) - Len(suffix) + 1, Len(s)) = suffix

\* list.remove(x): the list without its first item equal to x
RemoveFirst(list, x) ==
    LET hits == {i \in 1..Len(list) : list[i] = x}
    IN  IF hits = {} THEN list
        ELSE LET k == CHOOSE i \in hits : \A j \in hits : i <= j
             IN  SubSeq(list, 1, k - 1) \o SubSeq(list, k + 1, Len(list))

\* lines 40-42: `for f in file_paths` walks the list by a 0-based index i
\* that goes up by one every turn and stops once i >= len(file_paths),
\* while the body removes from that same list
RECURSIVE RemovalLoop(_, _, _)
RemovalLoop(paths, i, ext) ==
    IF i >= Len(paths) THEN paths
    ELSE IF ~EndsWith(paths[i + 1], ext)
         THEN RemovalLoop(RemoveFirst(paths, paths[i + 1]), i + 1, ext)
         ELSE RemovalLoop(paths, i + 1, ext)

\* lines 29-44; `if file_ext:` is false for None and for the empty string,
\* both of which are the empty text here
get_filepaths(found, ext) ==
    IF ext # <<>> THEN RemovalLoop(found, 0, ext) ELSE found

-----------------------------------------------------------------------------
(* The directories get_filepaths is given *)

Ext_txt == <<".", "t", "x", "t">>
Ext_log == <<".", "l", "o", "g">>
Path_a_txt == <<"a">> \o Ext_txt
Path_b_txt == <<"b">> \o Ext_txt
Path_c_log == <<"c">> \o Ext_log
Path_d_log == <<"d">> \o Ext_log
Path_txt == <<"t", "x", "t">>

Paths == {Path_a_txt, Path_b_txt, Path_c_log, Path_d_log, Path_txt}
FileExts == {<<>>, Ext_txt, Ext_log}

\* os.walk yields every file once: the full paths are distinct
Walks ==
    {w \in SeqsUpTo(MaxFiles, Paths) :
        \A i, j \in 1..Len(w) : i # j => w[i] # w[j]}

-----------------------------------------------------------------------------
(* nwispy.process_webrequest, lines 63-106, and
   nwispy_webservice.download_file, lines 144-169 *)

\* What read_webrequest hands back for three well-formed lines: a daily
\* request, an instantaneous request and a site line.
WebLines ==
    {Row(T_dv, Site01, Date1, Date2, <<Code00>>) \o <<Newline>>,
     Row(T_iv, Site01, Date1, Date2, <<Code00, Code00>>) \o <<Newline>>}
WebDescriptors ==
    {DvIvRequest(SearchDvIvRow(l)) : l \in WebLines}
        \cup {SiteRequest(SearchSiteRow(T_site \o <<Tab>> \o Site01 \o <<Newline>>))}

\* Lines 74-83 and 100-106 call helpers that nwispy_helpers.py does not
\* define under these names (get_file_info, get_file_paths), make a
\* directory, set up logging and open the request file: each can return or
\* raise.
SetUpErrors == {"AttributeError", "OSError", "IOError"}
\* line 90, nwispy_helpers.now, is another name nwispy_helpers.py lacks
NowErrors == {"AttributeError"}
\* download_file: urllib2.urlopen (line 165) raises URLError or HTTPError,
\* open and write (lines 168-169) raise IOError
DownloadErrors == {"URLError", "HTTPError", "IOError"}

\* line 163: base_url, to which line 164 attaches the encoded parameters
BaseUrl(data_type) ==
    <<"h", "t", "t", "p", ":", "/", "/", "w", "a", "t", "e", "r", "s", "e",
      "r", "v", "i", "c", "e", "s", ".", "u", "s", "g", "s", ".", "g", "o",
      "v", "/", "n", "w", "i", "s", "/">> \o data_type \o <<"/", "?">>

\* the call of download_file for the k-th request (1-based), lines 94-97
StartOf(k, request) ==
    [event |-> "start", request |-> k,
     base_url |-> BaseUrl(request.data_type),
     user_parameters_url |-> encode_url(request)]
ReturnOf(k) == [event |-> "returned", request |-> k]
RaiseOf(k, error) == [event |-> "raised", request |-> k, error |-> error]

\* lines 85-97 with a handler around download_file that goes on with the
\* next request
LoopAfterSwallowing(outcome) == "looping"

\* lines 85-97: the call of download_file stands in no try block, so the
\* loop goes on after a return and the function is left by an exception
LoopAfter(outcome) == IF outcome = "returned" THEN "looping" ELSE "raised"

-----------------------------------------------------------------------------
(* The state machines *)

NoResult == [status |-> "none", dates |-> <<>>, data |-> <<>>]

SeriesIdle ==
    /\ dates = <<>> /\ data = <<>> /\ observed_dates = <<>>
    /\ start_date = 0 /\ end_date = 0
    /\ subset = NoResult /\ resubset = NoResult
    /\ stage = "idle"

EncoderIdle ==
    /\ data_request = [data_type |-> <<>>, site_number |-> <<>>,
                       start_date |-> <<>>, end_date |-> <<>>,
                       parameters |-> <<>>]
    /\ request_url = <<>>
    /\ encoder = "idle"

FinderIdle ==
    /\ files_found = <<>>
    /\ file_ext = <<>>
    /\ file_paths = <<>>
    /\ finder = "idle"

WebIdle ==
    /\ request_data = <<>>
    /\ request_index = 0
    /\ download_log = <<>>
    /\ web_error = ""
    /\ web = "idle"

ReaderStart(at) ==
    /\ line = <<>>
    /\ line_no = 0
    /\ match_column_names = FALSE
    /\ match_dv_iv_row = FALSE
    /\ match_site_row = FALSE
    /\ column_names = <<>>
    /\ requests = <<>>
    /\ reader = at

(* read_webrequest_in, lines 91-117: one turn of the loop over data_file,
   which holds at most MaxLines lines, and the return at its end *)
ReadLine ==
    /\ reader = "reading"
    /\ line_no < MaxLines
    /\ \E l \in Lines :
          /\ line' = l
          /\ match_column_names' = SearchColumnNames(l).matched
          /\ match_dv_iv_row' = SearchDvIvRow(l).matched
          /\ match_site_row' = SearchSiteRow(l).matched
          /\ column_names' = IF SearchColumnNames(l).matched
                             THEN ColumnNamesOf(SearchColumnNames(l))
                             ELSE column_names
          /\ requests' = requests \o RequestsOf(l)
    /\ line_no' = line_no + 1
    /\ UNCHANGED reader
    /\ UNCHANGED notReader

ReturnData ==
    /\ reader = "reading"
    /\ reader' = "returned"
    /\ UNCHANGED <<line, line_no, match_column_names, match_dv_iv_row,
                   match_site_row, column_names, requests>>
    /\ UNCHANGED notReader

InitReader ==
    /\ SeriesIdle /\ EncoderIdle /\ FinderIdle /\ WebIdle
    /\ ReaderStart("reading")

NextReader == ReadLine \/ ReturnData

SpecReader == InitReader /\ [][NextReader]_vars

(* encode_url, lines 119-142, called on data_request *)
EncodeUrl ==
    /\ encoder = "request"
    /\ request_url' = encode_url(data_request)
    /\ encoder' = "encoded"
    /\ UNCHANGED data_request
    /\ UNCHANGED notEncoder

InitEncoder ==
    /\ SeriesIdle
    /\ ReaderStart("idle")
    /\ data_request \in DataRequests
    /\ request_url = <<>>
    /\ encoder = "request"
    /\ FinderIdle
    /\ WebIdle

NextEncoder == EncodeUrl

SpecEncoder == InitEncoder /\ [][NextEncoder]_vars

(* A caller of the series helpers *)

\* The caller aligns the series (dates, data) with the series observed_dates:
\* it asks find_start_end_dates for the window ...
CallFindStartEndDates ==
    /\ stage = "loaded"
    /\ LET w == find_start_end_dates(dates, observed_dates)
       IN  /\ start_date' = w.start
           /\ end_date' = w.end
           /\ stage' = IF w.status = "ok" THEN "window" ELSE "raised"
    /\ UNCHANGED <<dates, data, observed_dates, subset, resubset>>
    /\ UNCHANGED notSeries

\* ... or it supplies a window of its own
ChooseWindow ==
    /\ stage = "loaded"
    /\ \E s \in WindowDates, e \in WindowDates :
          /\ start_date' = s
          /\ end_date' = e
    /\ stage' = "window"
    /\ UNCHANGED <<dates, data, observed_dates, subset, resubset>>
    /\ UNCHANGED notSeries

CallSubsetData ==
    /\ stage = "window"
    /\ subset' = subset_data(dates, data, start_date, end_date)
    /\ stage' = "subset"
    /\ UNCHANGED <<dates, data, observed_dates, start_date, end_date, resubset>>
    /\ UNCHANGED notSeries

\* subset_data applied to what subset_data returned, with the same window
CallSubsetDataAgain ==
    /\ stage = "subset"
    /\ subset.status = "ok"
    /\ resubset' = subset_data(subset.dates, subset.data, start_date, end_date)
    /\ stage' = "resubset"
    /\ UNCHANGED <<dates, data, observed_dates, start_date, end_date, subset>>
    /\ UNCHANGED notSeries

InitSeries ==
    /\ dates \in SeqsUpTo(MaxLen, Dates)
    /\ data \in {DataOfLen(k) : k \in 0..MaxLen}
    /\ start_date = 0
    /\ end_date = 0
    /\ subset = NoResult
    /\ resubset = NoResult
    /\ stage = "loaded"
    /\ ReaderStart("idle")
    /\ EncoderIdle
    /\ FinderIdle
    /\ WebIdle

\* Two series are aligned: the window comes from find_start_end_dates.
InitAlign ==
    /\ InitSeries
    /\ observed_dates \in SeqsUpTo(MaxLen, Dates)

NextAlign ==
    \/ CallFindStartEndDates
    \/ CallSubsetData
    \/ CallSubsetDataAgain

SpecAlign == InitAlign /\ [][NextAlign]_vars

\* One series is subset to a window the caller supplies.
InitSubset ==
    /\ InitSeries
    /\ observed_dates = <<>>

NextSubset ==
    \/ ChooseWindow
    \/ CallSubsetData
    \/ CallSubsetDataAgain

SpecSubset == InitSubset /\ [][NextSubset]_vars

(* A caller of get_filepaths, lines 18-44: process_webrequest (nwispy.py,
   line 104) asks for the ".txt" files, other callers for any or all *)
CallGetFilepaths ==
    /\ finder = "walked"
    /\ file_paths' = get_filepaths(files_found, file_ext)
    /\ finder' = "returned"
    /\ UNCHANGED <<files_found, file_ext>>
    /\ UNCHANGED notFinder

InitFinder ==
    /\ SeriesIdle /\ EncoderIdle /\ WebIdle
    /\ ReaderStart("idle")
    /\ files_found \in Walks
    /\ file_ext \in FileExts
    /\ file_paths = <<>>
    /\ finder = "walked"

NextFinder == CallGetFilepaths

SpecFinder == InitFinder /\ [][NextFinder]_vars

(* process_webrequest, lines 63-106 *)

\* lines 74-83: the directory, the loggers and the request file
SetUp ==
    /\ web = "called"
    /\ \/ /\ \E rs \in SeqsUpTo(MaxRequests, WebDescriptors) :
                request_data' = rs
          /\ web' = "looping"
          /\ UNCHANGED web_error
       \/ /\ \E e \in SetUpErrors : web_error' = e
          /\ web' = "raised"
          /\ UNCHANGED request_data
    /\ UNCHANGED <<request_index, download_log>>
    /\ UNCHANGED notWeb

\* lines 85-97: the loop takes the next request, encodes it, names the file
\* and calls download_file
TakeRequest ==
    /\ web = "looping"
    /\ request_index < Len(request_data)
    /\ request_index' = request_index + 1
    /\ \/ /\ download_log' =
                Append(download_log,
                       StartOf(request_index + 1,
                               request_data[request_index + 1]))
          /\ web' = "downloading"
          /\ UNCHANGED web_error
       \/ /\ \E e \in NowErrors : web_error' = e
          /\ web' = "raised"
          /\ UNCHANGED download_log
    /\ UNCHANGED request_data
    /\ UNCHANGED notWeb

\* download_file, lines 163-169, runs to its end
DownloadReturns ==
    /\ web = "downloading"
    /\ download_log' = Append(download_log, ReturnOf(request_index))
    /\ web' = LoopAfter("returned")
    /\ UNCHANGED <<request_data, request_index, web_error>>
    /\ UNCHANGED notWeb

\* download_file, lines 163-169, raises
DownloadRaises ==
    /\ web = "downloading"
    /\ \E e \in DownloadErrors :
          /\ download_log' = Append(download_log, RaiseOf(request_index, e))
          /\ web_error' = e
    /\ web' = LoopAfter("raised")
    /\ UNCHANGED <<request_data, request_index>>
    /\ UNCHANGED notWeb

\* lines 99-106: the loop is over; the loggers are removed and the files
\* downloaded are processed
FinishWebrequest ==
    /\ web = "looping"
    /\ request_index = Len(request_data)
    /\ \/ /\ web' = "returned"
          /\ UNCHANGED web_error
       \/ /\ \E e \in SetUpErrors : web_error' = e
          /\ web' = "raised"
    /\ UNCHANGED <<request_data, request_index, download_log>>
    /\ UNCHANGED notWeb

InitWeb ==
    /\ SeriesIdle /\ EncoderIdle /\ FinderIdle
    /\ ReaderStart("idle")
    /\ request_data = <<>>
    /\ request_index = 0
    /\ download_log = <<>>
    /\ web_error = ""
    /\ web = "called"

NextWeb ==
    \/ SetUp
    \/ TakeRequest
    \/ DownloadReturns
    \/ DownloadRaises
    \/ FinishWebrequest

SpecWeb == InitWeb /\ [][NextWeb]_vars

-----------------------------------------------------------------------------
(* Properties of the series helpers *)

Last(seq) == seq[Len(seq)]
Max2(x, y) == IF x > y THEN x ELSE y
Elems(seq) == {seq[i] : i \in 1..Len(seq)}
StrictlyAscending(seq) == \A i \in 1..(Len(seq) - 1) : seq[i] < seq[i + 1]

\* The window in the state is the one find_start_end_dates returned for two
\* strictly ascending, non-empty series that share a date; dates and data
\* have equal length.
AlignedOverlapping ==
    /\ dates # <<>> /\ observed_dates # <<>>
    /\ StrictlyAscending(dates) /\ StrictlyAscending(observed_dates)
    /\ Len(dates) = Len(data)
    /\ Elems(dates) \cap Elems(observed_dates) # {}

\* C4: for two non-empty ascending series that share a common date (sorted
\* taken strictly, so that no date repeats), subset_data with the window of
\* find_start_end_dates returns a non-empty result and does not raise.
C4_SubsetOfOverlapNonEmpty ==
    (stage \in {"subset", "resubset"} /\ AlignedOverlapping)
        => (subset.status = "ok" /\ subset.dates # <<>> /\ subset.data # <<>>)

\* C5 as stated: whenever subset_data returned for a series with dates and
\* data of equal length, subsetting its result with the same window returns
\* the same dates and data.
C5_SubsetIdempotentEveryWindow ==
    (stage = "subset" /\ subset.status = "ok")
        => subset_data(subset.dates, subset.data, start_date, end_date) = subset

\* C5 amended: whenever subset_data returned a non-empty result, subsetting
\* that result with the same window returns the same dates and data.
C5_SubsetIdempotentNonEmpty ==
    /\ (stage = "subset" /\ subset.status = "ok" /\ subset.dates # <<>>)
          => subset_data(subset.dates, subset.data, start_date, end_date) = subset
    /\ (stage = "resubset" /\ subset.dates # <<>>) => resubset = subset

\* a series was really trimmed, and trimming the result again changed nothing
C5_Witness ==
    /\ stage = "resubset"
    /\ resubset.status = "ok"
    /\ Len(subset.dates) > 1
    /\ Len(subset.dates) < Len(dates)
    /\ resubset = subset

\* C6: for two non-empty series find_start_end_dates returns the same window
\* whichever series comes first: the later of the two first dates and the
\* earlier of the two last dates.
C6_FindStartEndCommutative ==
    (stage = "window" /\ dates # <<>> /\ observed_dates # <<>>)
        => /\ LET w == find_start_end_dates(observed_dates, dates)
              IN  w.status = "ok" /\ w.start = start_date /\ w.end = end_date
           /\ start_date = Max2(dates[1], observed_dates[1])
           /\ end_date = Min2(Last(dates), Last(observed_dates))

\* the two series differ in their first and in their last dates, each way round
C6_Witness ==
    /\ stage = "window"
    /\ dates # <<>> /\ observed_dates # <<>>
    /\ dates[1] > observed_dates[1]
    /\ Last(dates) > Last(observed_dates)
    /\ start_date = dates[1]
    /\ end_date = Last(observed_dates)

OutsideRange(ds, d) == d < ds[1] \/ d > Last(ds)

\* The inclusive slice of (ds, vs) between the first occurrences of s and e.
FirstAt(ds, d) == CHOOSE i \in 1..Len(ds) : ds[i] = d /\ \A j \in 1..(i - 1) : ds[j] # d
InclusiveSlice(ds, vs, s, e) ==
    Returned(SubSeq(ds, FirstAt(ds, s), FirstAt(ds, e)),
             SubSeq(vs, FirstAt(ds, s), FirstAt(ds, e)))

\* C7: for a non-empty series with dates and data of equal length and a
\* window whose start or end lies outside [dates[0], dates[-1]], subset_data
\* does not raise: it returns the inclusive slice between the start (dates[0]
\* when outside) and the end (dates[-1] when outside).  The series is taken
\* strictly ascending, so that no date repeats.
C7_OutOfRangeWindowClamped ==
    (/\ stage = "subset"
     /\ dates # <<>> /\ Len(dates) = Len(data)
     /\ StrictlyAscending(dates)
     /\ (OutsideRange(dates, start_date) \/ OutsideRange(dates, end_date)))
        => LET s1 == IF OutsideRange(dates, start_date) THEN dates[1] ELSE start_date
               e1 == IF OutsideRange(dates, end_date) THEN Last(dates) ELSE end_date
           IN  /\ subset.status = "ok"
               /\ s1 \in Elems(dates) /\ e1 \in Elems(dates)
               /\ subset = InclusiveSlice(dates, data, s1, e1)

\* C9: for two non-empty series sorted ascending, the window returned by
\* find_start_end_dates has start_date <= end_date.
C9_WindowStartNotAfterEnd ==
    (/\ stage = "window"
     /\ dates # <<>> /\ observed_dates # <<>>
     /\ StrictlyAscending(dates) /\ StrictlyAscending(observed_dates))
        => start_date <= end_date

\* C10: whenever len(dates) # len(data), subset_data raises ValueError and
\* returns no subset, whatever the window and before dates is read (also when
\* dates is empty, where reading dates[0] would raise IndexError).
C10_LengthMismatchRaises ==
    (stage = "subset" /\ Len(dates) # Len(data))
        => (subset = Raised("ValueError") /\ ~ENABLED CallSubsetDataAgain)

\* dates is empty and data is not: the length check came before dates[0]
C10_Witness ==
    /\ stage = "subset"
    /\ dates = <<>> /\ data # <<>>
    /\ subset.status = "ValueError"

-----------------------------------------------------------------------------
(* Properties of read_webrequest_in *)

\* The shapes of a line, read off its tab-separated fields: the line without
\* the blanks in front of it and without the blanks and the newline at its end.
RECURSIVE DropBlanks(_)
DropBlanks(s) ==
    IF s # <<>> /\ Head(s) = " " THEN DropBlanks(Tail(s)) ELSE s
RECURSIVE DropTrail(_)
DropTrail(s) ==
    IF s # <<>> /\ s[Len(s)] \in {" ", Newline}
    THEN DropTrail(SubSeq(s, 1, Len(s) - 1))
    ELSE s
FieldsOf(l) == Split(DropTrail(DropBlanks(l)), Tab)

AllDigits(f) == f # <<>> /\ \A i \in 1..Len(f) : IsDigit(f[i])
IsDate(f) ==
    LET parts == Split(f, "-")
    IN  /\ Len(parts) = 3
        /\ \A i \in 1..3 : AllDigits(parts[i])
        /\ Len(parts[1]) = 4
        /\ Len(parts[2]) \in {1, 2}
        /\ Len(parts[3]) \in {1, 2}

\* a header line begins with '#'
HasHeaderShape(l) == At(DropBlanks(l), 1) = "#"

\* kind, site, start date, end date and at least one parameter
HasDataRequestShape(l) ==
    LET f == FieldsOf(l)
    IN  /\ Len(f) >= 5
        /\ f[1] \in Kinds
        /\ AllDigits(f[2])
        /\ IsDate(f[3])
        /\ IsDate(f[4])
        /\ \A i \in 5..Len(f) : f[i] # <<>>

\* the token site, a tab and digits
HasSiteOnlyShape(l) ==
    LET f == FieldsOf(l)
    IN  /\ Len(f) >= 2
        /\ f[1] = T_site
        /\ AllDigits(f[2])

ShapedCount(l) == IF HasDataRequestShape(l) \/ HasSiteOnlyShape(l) THEN 1 ELSE 0

\* the loop has just taken a line
TookLine == line_no' = line_no + 1

\* C1: len(requests) is the number of lines of data-request or site-only
\* shape: every such line adds one entry, every other line adds none, and a
\* line beginning with '#' never adds an entry.
C1_RequestsCountShapedLines ==
    [][TookLine =>
          /\ Len(requests') = Len(requests) + ShapedCount(line')
          /\ (HasHeaderShape(line') => requests' = requests)]_vars

\* C2: a line matches at most one of the three patterns: none both sets
\* column_names and appends a descriptor, none appends two descriptors.
C2_LineMatchesAtMostOneShape ==
    [][TookLine =>
          /\ ~(match_column_names' /\ match_dv_iv_row')
          /\ ~(match_column_names' /\ match_site_row')
          /\ ~(match_dv_iv_row' /\ match_site_row')
          /\ Len(requests') <= Len(requests) + 1
          /\ (match_column_names' => requests' = requests)]_vars

\* the line 'kind<TAB>site<TAB>start<TAB>end<TAB>p1<TAB>...<TAB>pn', blanks
\* and a newline after it allowed
IsDataRequestLine(l) ==
    LET f == Split(DropTrail(l), Tab)
    IN  /\ Len(f) >= 5
        /\ f[1] \in Kinds
        /\ AllDigits(f[2])
        /\ IsDate(f[3])
        /\ IsDate(f[4])
        /\ \A i \in 5..Len(f) : f[i] # <<>> /\ \A j \in 1..Len(f[i]) : f[i][j] # " "

DescriptorOf(l) ==
    LET f == Split(DropTrail(l), Tab)
    IN  [data_type |-> f[1],
         site_number |-> f[2],
         start_date |-> f[3],
         end_date |-> f[4],
         parameters |-> SubSeq(f, 5, Len(f))]

\* C3: a data-request line appends exactly one descriptor, at the end of
\* requests: its first four fields and the parameters [p1, ..., pn] in order.
C3_DataRequestLineAppendsItsDescriptor ==
    [][(TookLine /\ IsDataRequestLine(line'))
          => requests' = Append(requests, DescriptorOf(line'))]_vars

\* C3 for the lines none of whose parameters is the token site followed by a
\* digit code
NoSiteParameter(l) ==
    LET f == Split(DropTrail(l), Tab)
    IN  \A i \in 5..(Len(f) - 1) : ~(f[i] = T_site /\ IsDigit(At(f[i + 1], 1)))

C3_HoldsWithoutSiteParameter ==
    [][(TookLine /\ IsDataRequestLine(line') /\ NoSiteParameter(line'))
          => requests' = Append(requests, DescriptorOf(line'))]_vars

-----------------------------------------------------------------------------
(* Properties of encode_url *)

(* Reading a query string back: the pairs between '&', each split at its
   first '=', '+' and '%XX' undone *)

RECURSIVE unquote_plus(_)
unquote_plus(s) ==
    IF s = <<>> THEN <<>>
    ELSE IF Head(s) = "+" THEN <<" ">> \o unquote_plus(Tail(s))
    ELSE IF /\ Head(s) = "%"
            /\ Len(s) >= 3
            /\ \E c \in EscapedChars : PercentCode(c) = SubSeq(s, 1, 3)
    THEN <<CHOOSE c \in EscapedChars : PercentCode(c) = SubSeq(s, 1, 3)>>
             \o unquote_plus(SubSeq(s, 4, Len(s)))
    ELSE <<Head(s)>> \o unquote_plus(Tail(s))

DecodePair(piece) ==
    LET at == {i \in 1..Len(piece) : piece[i] = "="}
    IN  IF at = {} THEN <<unquote_plus(piece), <<>>>>
        ELSE <<unquote_plus(SubSeq(piece, 1, Least(at) - 1)),
               unquote_plus(SubSeq(piece, Least(at) + 1, Len(piece)))>>

DecodeQuery(q) ==
    LET pieces == Split(q, "&")
    IN  [i \in 1..Len(pieces) |-> DecodePair(pieces[i])]

\* the value stored under key, <<>> when the key is absent
ValueOf(pairs, key) ==
    LET at == {i \in 1..Len(pairs) : pairs[i][1] = key}
    IN  IF at = {} THEN <<>> ELSE pairs[Least(at)][2]

\* the codes of a comma-joined value; an empty value holds no code
CodesOf(v) == IF v = <<>> THEN <<>> ELSE Split(v, ",")

\* the (key, value) pairs read back from the query string encode_url returned
Decoded == DecodeQuery(request_url)

FiveKeys == {K_format, K_site, K_startDt, K_endDt, K_parameterCD}

\* the query string read back gives the five keys and the request's site
\* number, dates and set of parameter codes
RoundTrips ==
    /\ Len(Decoded) = 5
    /\ {Decoded[i][1] : i \in 1..Len(Decoded)} = FiveKeys
    /\ ValueOf(Decoded, K_format) = V_rdb
    /\ ValueOf(Decoded, K_site) = data_request.site_number
    /\ ValueOf(Decoded, K_startDt) = data_request.start_date
    /\ ValueOf(Decoded, K_endDt) = data_request.end_date
    /\ ValueOf(Decoded, K_parameterCD) = JoinWith(data_request.parameters, ",")
    /\ Elems(CodesOf(ValueOf(Decoded, K_parameterCD)))
           = Elems(data_request.parameters)
    /\ encode_url(data_request) = request_url

\* C8 as stated: for every request the query string of encode_url has
\* exactly the five keys and reads back to the request's site number, start
\* date, end date and set of parameter codes.
C8_EncodeUrlRoundTripEveryRequest == (encoder = "encoded") => RoundTrips

\* no parameter code is empty or holds a comma
PlainCodes(req) ==
    \A i \in 1..Len(req.parameters) :
        /\ req.parameters[i] # <<>>
        /\ \A j \in 1..Len(req.parameters[i]) : req.parameters[i][j] # ","

\* C8 amended: the same, for every request none of whose parameter codes is
\* empty or holds a comma.
C8_EncodeUrlRoundTripPlainCodes ==
    (encoder = "encoded" /\ PlainCodes(data_request)) => RoundTrips

\* two codes, one of them with characters that are escaped, and a site
\* number with a blank, '&' and '=' came back unchanged
C8_Witness ==
    /\ encoder = "encoded"
    /\ PlainCodes(data_request)
    /\ data_request.parameters = <<Code00, Hostile1>>
    /\ data_request.site_number = Hostile1
    /\ data_request.start_date = Hostile2
    /\ RoundTrips

-----------------------------------------------------------------------------
(* Properties of get_filepaths *)

\* C11: when get_filepaths is called with a file_ext, every path of the list
\* it returns ends with file_ext, whatever files were found under the
\* directory, adjacent unwanted paths included.
C11_ReturnedPathsEndWithExt ==
    (finder = "returned" /\ file_ext # <<>>)
        => \A i \in 1..Len(file_paths) : EndsWith(file_paths[i], file_ext)

\* What the loop does keep to: a wanted path is never dropped, and the
\* returned list is in walk order.
C11_WantedPathsAllKept ==
    (finder = "returned" /\ file_ext # <<>>)
        => \A i \in 1..Len(files_found) :
              EndsWith(files_found[i], file_ext)
                  => files_found[i] \in Elems(file_paths)

-----------------------------------------------------------------------------
(* Properties of process_webrequest *)

\* the request whose download the j-th entry of download_log belongs to
RequestAt(j) == (j + 1) \div 2

\* C12: process_webrequest downloads the requests one after another in file
\* order, once each and never again: the log of download_file calls is
\* start 1, returned 1, start 2, returned 2, ...; a call that raised is the
\* last entry of the log for good, and its exception has left
\* process_webrequest.
C12_DownloadsSequentialNoRetry ==
    /\ \A j \in 1..Len(download_log) :
          /\ download_log[j].request = RequestAt(j)
          /\ RequestAt(j) <= Len(request_data)
          /\ IF j % 2 = 1
             THEN /\ download_log[j].event = "start"
                  /\ download_log[j].user_parameters_url
                        = encode_url(request_data[RequestAt(j)])
             ELSE download_log[j].event \in {"returned", "raised"}
          /\ download_log[j].event = "raised"
                => /\ j = Len(download_log)
                   /\ web = "raised"
                   /\ web_error = download_log[j].error
    /\ web = "downloading"
          <=> (download_log # <<>>
                  /\ download_log[Len(download_log)].event = "start")

\* The second of three downloads raised: the third was never started.
C12_Witness ==
    /\ web = "raised"
    /\ Len(request_data) > 2
    /\ Len(download_log) = 4
    /\ download_log[2].event = "returned"
    /\ download_log[4].event = "raised"

=============================================================================
